---- MODULE Spec2Model ----
(***************************************************************************)
(* Model of the ACL4SSR rule converters ssr_to_quantumultx.py             *)
(* (QuantumultXConverter, target "qx") and ssr_to_shadowrocket.py          *)
(* (SSRConverter, target "sr").                                            *)
(*                                                                         *)
(* Text is modelled as a sequence of symbols.  A symbol is either one of   *)
(* the separators "," " " "#" "[" "]" or a word that contains none of     *)
(* them ("DOMAIN", "ruleset=", a policy-group name, a URL, ...).  strip,   *)
(* split, join and startswith are computed on these sequences as Python    *)
(* computes them on characters.  A file is a sequence of lines.            *)
(***************************************************************************)
EXTENDS Integers, Sequences, FiniteSets, TLC

VARIABLES
    target,           \* "qx" | "sr": which converter class runs
    mode,             \* self.mode: "list" | "full"
    max_workers,      \* self.max_workers
    iniFile,          \* the lines of the file at self.ini_path
    cache,            \* url -> the cache file get_cache_path(url)
    pc,               \* position of the main thread inside convert()
    rulesets,         \* self.rulesets
    tasks,            \* the futures of convert(), one per submitted call
    converted_rules,  \* self.converted_rules (insertion-ordered dict)
    completed,        \* the local counter of convert()
    files             \* what generate_output_files has written

vars == <<target, mode, max_workers, iniFile, cache, pc, rulesets,
          tasks, converted_rules, completed, files>>

----------------------------------------------------------------------------
(* Bounds of the model.                                                    *)

\* longest rule line (in symbols) enumerated for the line translator
MaxLineLen == 4
\* longest directive line (in symbols) enumerated for the directive parser
MaxIniLineLen == 6
\* most directives in a directive file of the concurrent model
MaxRulesets == 2
\* largest pool size tried: max_workers ranges over 1..MaxWorkers (the
\* scripts default to 10, the command line may give any number)
MaxWorkers == 2

\* flag fields after the value of an IP rule line
MaxFlags == 2

----------------------------------------------------------------------------
(* Optional values: Python's None against a value.                         *)

None == [some |-> FALSE, val |-> <<>>]

Some(v) == [some |-> TRUE, val |-> v]

----------------------------------------------------------------------------
(* Python string operations on symbol sequences.                           *)

RECURSIVE LStrip(_)
LStrip(s) == IF s # <<>> /\ Head(s) = " " THEN LStrip(Tail(s)) ELSE s

RECURSIVE RStrip(_)
RStrip(s) ==
    IF s # <<>> /\ s[Len(s)] = " " THEN RStrip(SubSeq(s, 1, Len(s) - 1)) ELSE s

\* str.strip()
Strip(s) == RStrip(LStrip(s))

\* str.startswith(p)
StartsWith(s, p) == Len(s) >= Len(p) /\ SubSeq(s, 1, Len(p)) = p

\* index of the first occurrence of symbol c in s, 0 when there is none
FirstIndex(s, c) ==
    IF \E i \in 1..Len(s) : s[i] = c
    THEN CHOOSE i \in 1..Len(s) : s[i] = c /\ \A j \in 1..(i - 1) : s[j] # c
    ELSE 0

\* str.split(","): n commas give n + 1 fields, empty fields included
RECURSIVE Split(_)
Split(s) ==
    LET i == FirstIndex(s, ",")
    IN  IF i = 0 THEN <<s>>
        ELSE <<SubSeq(s, 1, i - 1)>> \o Split(SubSeq(s, i + 1, Len(s)))

\* ",".join(fields)
RECURSIVE Join(_)
Join(fields) ==
    IF fields = <<>> THEN <<>>
    ELSE IF Len(fields) = 1 THEN fields[1]
    ELSE fields[1] \o <<",">> \o Join(Tail(fields))

\* [f(x) for x in s]
MapStrip(fields) == [i \in 1..Len(fields) |-> Strip(fields[i])]

NonEmpty(s) == s # <<>>

\* str.lower() of a flag: only the flag word has an upper-case spelling here
LowerSym(c) == IF c = "NO-RESOLVE" THEN "no-resolve" ELSE c

Lower(s) == [i \in 1..Len(s) |-> LowerSym(s[i])]

\* all sequences over S of length at most n
RECURSIVE SeqsUpTo(_, _)
SeqsUpTo(S, n) ==
    IF n = 0 THEN {<<>>}
    ELSE LET shorter == SeqsUpTo(S, n - 1)
         IN  shorter \cup {Append(s, c) : s \in {x \in shorter : Len(x) = n - 1}, c \in S}

----------------------------------------------------------------------------
(* The tables.  Policy-group names are written in ASCII; each stands for   *)
(* the emoji-prefixed name on the same line of the source table.           *)

POLICY_MAP_QX ==
    [g \in {"GlobalDirect", "NationalMedia", "Apple", "NeteaseMusic", "Bilibili"} |-> "DIRECT"]
    @@ [g \in {"AdIntercept", "AppPurify", "AdBlock", "Privacy"} |-> "REJECT"]
    @@ [g \in {"NodeSelect", "ForeignMedia", "Netflix", "Games", "Fallthrough",
               "OpenAi", "GoogleFCM", "Telegram", "YouTube", "Bahamut", "AI",
               "Anthropic", "GithubCopilot", "Google", "Other", "Parsec"} |-> "proxy"]

POLICY_MAP_SR ==
    [g \in DOMAIN POLICY_MAP_QX |->
        IF POLICY_MAP_QX[g] = "proxy" THEN "PROXY" ELSE POLICY_MAP_QX[g]]

POLICY_MAP(tgt) == IF tgt = "qx" THEN POLICY_MAP_QX ELSE POLICY_MAP_SR

\* POLICY_MAP.get(policy_group, default): the key is the whole name
PolicyGet(tgt, policy_group, default) ==
    IF Len(policy_group) = 1 /\ policy_group[1] \in DOMAIN POLICY_MAP(tgt)
    THEN <<POLICY_MAP(tgt)[policy_group[1]]>>
    ELSE default

RULE_TYPE_MAP_QX ==
    ("DOMAIN" :> "HOST") @@ ("DOMAIN-SUFFIX" :> "HOST-SUFFIX")
    @@ ("DOMAIN-KEYWORD" :> "HOST-KEYWORD") @@ ("IP-CIDR" :> "IP-CIDR")
    @@ ("IP-CIDR6" :> "IP-CIDR6") @@ ("GEOIP" :> "GEOIP") @@ ("MATCH" :> "FINAL")

RULE_TYPE_MAP_SR ==
    ("DOMAIN" :> "DOMAIN") @@ ("DOMAIN-SUFFIX" :> "DOMAIN-SUFFIX")
    @@ ("DOMAIN-KEYWORD" :> "DOMAIN-KEYWORD") @@ ("IP-CIDR" :> "IP-CIDR")
    @@ ("GEOIP" :> "GEOIP") @@ ("MATCH" :> "FINAL")

RULE_TYPE_MAP(tgt) == IF tgt = "qx" THEN RULE_TYPE_MAP_QX ELSE RULE_TYPE_MAP_SR

----------------------------------------------------------------------------
(* parse_acl4ssr_ini                                                       *)

\* mutant of MatchRuleset: the split is at the last comma, as the pattern
\* "ruleset=(.+),(.+)" would do
MatchRuleset_LastComma(line) ==
    LET rest == Tail(line)
        cs   == {i \in 1..Len(rest) : rest[i] = ","}
        c    == IF cs = {} THEN 0 ELSE CHOOSE i \in cs : \A j \in cs : j <= i
    IN  IF c >= 2 /\ c < Len(rest)
        THEN Some(<<SubSeq(rest, 1, c - 1), SubSeq(rest, c + 1, Len(rest))>>)
        ELSE None

\* re.match(r"ruleset=([^,]+),(.+)", line) on a line that starts with
\* "ruleset=": group 1 is the longest comma-free run after the prefix (at
\* least one symbol), then a comma, then group 2 is everything left (at
\* least one symbol).  The groups, or None when the pattern does not match.
MatchRuleset(line) ==
    LET rest == Tail(line)
        c    == FirstIndex(rest, ",")
    IN  IF c >= 2 /\ c < Len(rest)
        THEN Some(<<SubSeq(rest, 1, c - 1), SubSeq(rest, c + 1, Len(rest))>>)
        ELSE None

\* the body of the for loop: the pairs one line appends to self.rulesets
ParseLine(raw) ==
    LET line == Strip(raw)
    IN  IF StartsWith(line, <<"ruleset=">>)
        THEN LET match == MatchRuleset(line)
             IN  IF match.some
                 THEN << <<Strip(match.val[1]), Strip(match.val[2])>> >>
                 ELSE <<>>
        ELSE <<>>

RECURSIVE parse_acl4ssr_ini(_)
parse_acl4ssr_ini(lines) ==
    IF lines = <<>> THEN <<>>
    ELSE ParseLine(Head(lines)) \o parse_acl4ssr_ini(Tail(lines))

----------------------------------------------------------------------------
(* The line translators.  A rule is a symbol sequence, None is Python's    *)
(* None.                                                                   *)

\* the policy written into a translated line (qx 158-161, sr 169-174)
FinalPolicy(tgt, m, policy_group) ==
    IF m = "list"
    THEN PolicyGet(tgt, policy_group, IF tgt = "qx" THEN <<"proxy">> ELSE <<"PROXY">>)
    ELSE policy_group

\* mutant of MappedType: the type is looked up but not rewritten
MappedType_Unmapped(rule_type_raw) ==
    IF Len(rule_type_raw) = 1 /\ rule_type_raw[1] \in DOMAIN RULE_TYPE_MAP_QX
    THEN Some(rule_type_raw)
    ELSE None

\* RULE_TYPE_MAP.get(rule_type_raw) of the Quantumult X converter
MappedType(rule_type_raw) ==
    IF Len(rule_type_raw) = 1 /\ rule_type_raw[1] \in DOMAIN RULE_TYPE_MAP_QX
    THEN Some(<<RULE_TYPE_MAP_QX[rule_type_raw[1]]>>)
    ELSE None

\* parts = [p.strip() for p in rule.split(",") if p.strip()]
PartsQX(rule) == SelectSeq(MapStrip(Split(rule)), NonEmpty)

\* mutant of FlagsQX: no-resolve is appended whatever the extras are
FlagsQX_Always(extras) ==
    Append(SelectSeq(extras, NonEmpty), <<"no-resolve">>)

\* flags of an IP rule: the extras, plus no-resolve unless one of them is it
FlagsQX(extras) ==
    LET flags == SelectSeq(extras, NonEmpty)
    IN  IF \E i \in 1..Len(flags) : Lower(flags[i]) = <<"no-resolve">>
        THEN flags
        ELSE Append(flags, <<"no-resolve">>)

convert_clash_rule_to_quantumult(raw, policy_group, m) ==
    LET rule == Strip(raw)
    IN  IF rule = <<>> \/ Head(rule) = "#" THEN None
        ELSE
        LET parts == PartsQX(rule)
        IN  IF Len(parts) < 2 THEN None
            ELSE
            LET rule_value   == parts[2]
                mapped       == MappedType(parts[1])
                final_policy == FinalPolicy("qx", m, policy_group)
                extras       == SubSeq(parts, 3, Len(parts))
            IN  IF ~mapped.some THEN None
                ELSE
                LET mapped_type == mapped.val
                IN  IF mapped_type \in {<<"HOST">>, <<"HOST-SUFFIX">>, <<"HOST-KEYWORD">>}
                    THEN Some(Join(<<mapped_type, rule_value, final_policy>>))
                    ELSE IF mapped_type \in {<<"IP-CIDR">>, <<"IP-CIDR6">>}
                    THEN Some(Join(<<mapped_type, rule_value, final_policy>> \o FlagsQX(extras)))
                    ELSE IF mapped_type = <<"GEOIP">>
                    THEN Some(Join(<<<<"GEOIP">>, rule_value, final_policy>>))
                    ELSE IF mapped_type = <<"FINAL">>
                    THEN Some(Join(<<<<"FINAL">>, final_policy>>))
                    ELSE None

convert_clash_rule_to_shadowrocket(raw, policy_group, m) ==
    LET rule == Strip(raw)
    IN  IF rule = <<>> \/ Head(rule) = "#" THEN None
        ELSE
        LET parts == Split(rule)
        IN  IF Len(parts) < 2 THEN None
            ELSE
            LET rule_type    == Strip(parts[1])
                rule_value   == Strip(parts[2])
                final_policy == FinalPolicy("sr", m, policy_group)
            IN  IF rule_type \in {<<"DOMAIN">>, <<"DOMAIN-SUFFIX">>, <<"DOMAIN-KEYWORD">>}
                THEN Some(Join(<<rule_type, rule_value, final_policy>>))
                ELSE IF rule_type = <<"IP-CIDR">>
                THEN Some(Join(<<rule_type, rule_value, final_policy, <<"no-resolve">>>>))
                ELSE IF rule_type = <<"GEOIP">>
                THEN Some(Join(<<rule_type, rule_value, final_policy>>))
                ELSE IF rule_type = <<"MATCH">>
                THEN Some(Join(<<<<"FINAL">>, final_policy>>))
                ELSE None

\* the translator the running converter calls in process_ruleset
ConvertRule(tgt, raw, policy_group, m) ==
    IF tgt = "qx"
    THEN convert_clash_rule_to_quantumult(raw, policy_group, m)
    ELSE convert_clash_rule_to_shadowrocket(raw, policy_group, m)

----------------------------------------------------------------------------
(* self.converted_rules: a dict that keeps insertion order, modelled as    *)
(* the sequence of its (key, value) entries.                               *)

Keys(d) == [i \in 1..Len(d) |-> d[i].key]

\* key in d
HasKey(d, k) == \E i \in 1..Len(d) : d[i].key = k

KeyIndex(d, k) == CHOOSE i \in 1..Len(d) : d[i].key = k

\* d[k]
DictGet(d, k) == d[KeyIndex(d, k)].val

\* d[k] = v: a new key goes last, an existing key keeps its place
DictSet(d, k, v) ==
    IF HasKey(d, k)
    THEN [d EXCEPT ![KeyIndex(d, k)].val = v]
    ELSE Append(d, [key |-> k, val |-> v])

\* mutant of DictAppend: the rule is put in front of the list
DictAppend_Front(d, k, x) == [d EXCEPT ![KeyIndex(d, k)].val = <<x>> \o @]

\* d[k].append(x)
DictAppend(d, k, x) == [d EXCEPT ![KeyIndex(d, k)].val = Append(@, x)]

RECURSIVE DictExtend(_, _, _)
DictExtend(d, k, xs) ==
    IF xs = <<>> THEN d ELSE DictExtend(DictAppend(d, k, Head(xs)), k, Tail(xs))

----------------------------------------------------------------------------
(* The world around the program: the rule sources and the cache directory. *)

\* the rule-source URLs that occur in the directive files of the model
URLs == {<<"u1">>}

\* the body the server returns for a URL when the request succeeds
Served(url) == << <<"DOMAIN", ",", "a">>, <<"IP-CIDR6", ",", "b">> >>

\* an older copy of a source, as a previous run may have cached it
StaleCopy == << <<"DOMAIN-SUFFIX", ",", "old">> >>

\* a cache file: missing, present and readable, or present and unreadable
\* (open() or the utf-8 decoding of read() raises)
Absent == [exists |-> FALSE, readable |-> FALSE, content |-> <<>>]

Unreadable == [exists |-> TRUE, readable |-> FALSE, content |-> <<>>]

FileWith(content) == [exists |-> TRUE, readable |-> TRUE, content |-> content]

\* get_cache_path: the file is named by the MD5 of the URL, so different
\* URLs name different files; the URL itself stands for the path
get_cache_path(url) == url

\* the directive lines the directive files of the concurrent model are
\* made of: a remote source, and the two inline special directives
DirectiveLines ==
    { <<"ruleset=", "GlobalDirect", ",", "u1">>,
      <<"ruleset=", "GlobalDirect", ",", "[", "]", "FINAL">>,
      <<"ruleset=", "Custom", ",", "[", "]", "GEOIP", ",", "CN">> }

----------------------------------------------------------------------------
(* process_ruleset and download_rule_file, one future per call.            *)

\* the future of executor.submit(self.process_ruleset, policy_group, rule_def)
\*   pc        where the call is: "pending" (queued), "init", "body",
\*             "fetch", "convert", or finished: "done" (returned), "raised"
\*   content   what download_rule_file returned
\*   idx       lines of content the for loop has handled
\*   requests  HTTP requests download_rule_file has issued
\*   seen      what the cache check at the top of download_rule_file found
\*   fetch     how urlopen/read/decode ended
\*   wrote     how this call's write of the cache file ended ("no": none)
\*   appended  rules this call has appended to converted_rules
\*   collected whether as_completed has yielded the future
NewTask(policy_group, rule_def) ==
    [policy_group |-> policy_group, rule_def |-> rule_def, pc |-> "pending",
     content |-> None, idx |-> 0, requests |-> 0, seen |-> "none",
     fetch |-> "none", wrote |-> "no", appended |-> 0, collected |-> FALSE]

Finished(t) == tasks[t].pc \in {"done", "raised"}

Running(t) == tasks[t].pc \notin {"pending", "done", "raised"}

\* mutant of ListKey: the rules are filed under the mapped base policy
ListKey_Policy(tgt, policy_group) == PolicyGet(tgt, policy_group, policy_group)

\* the key under which process_ruleset files its rules: policy_group itself
ListKey(tgt, policy_group) == policy_group

\* a worker thread of the pool is free and t is the oldest queued call
CanStart(t) ==
    /\ pc = "collect"
    /\ t \in 1..Len(tasks)
    /\ tasks[t].pc = "pending"
    /\ \A j \in 1..(t - 1) : tasks[j].pc # "pending"
    /\ Cardinality({j \in 1..Len(tasks) : Running(j)}) < max_workers

\* if content: a str is true when it is not empty
Truthy(content) == content.some /\ content.val # <<>>

\* lines 187-188, first half: the call starts and evaluates
\* "policy_group not in self.converted_rules"
Start(t) ==
    /\ CanStart(t)
    /\ tasks' = [tasks EXCEPT ![t].pc =
                    IF HasKey(converted_rules, ListKey(target, tasks[t].policy_group))
                    THEN "body" ELSE "init"]
    /\ UNCHANGED <<target, mode, max_workers, iniFile, cache, pc, rulesets,
                   converted_rules, completed, files>>

\* the call ends with an exception (future.result() re-raises it)
TaskRaises(t) ==
    /\ CanStart(t)
    /\ tasks' = [tasks EXCEPT ![t].pc = "raised"]
    /\ UNCHANGED <<target, mode, max_workers, iniFile, cache, pc, rulesets,
                   converted_rules, completed, files>>

\* line 188: self.converted_rules[policy_group] = []
InitList(t) ==
    /\ t \in 1..Len(tasks)
    /\ tasks[t].pc = "init"
    /\ converted_rules' =
          DictSet(converted_rules, ListKey(target, tasks[t].policy_group), <<>>)
    /\ tasks' = [tasks EXCEPT ![t].pc = "body"]
    /\ UNCHANGED <<target, mode, max_workers, iniFile, cache, pc, rulesets,
                   completed, files>>

\* the rules an inline special directive appends (lines 190-203)
SpecialRules(tgt, policy_group, rule_def) ==
    LET special_rule == SubSeq(rule_def, 3, Len(rule_def))
    IN  IF special_rule = <<"FINAL">>
        THEN << Join(<< <<"FINAL">>, PolicyGet(tgt, policy_group, policy_group) >>) >>
        ELSE IF StartsWith(special_rule, <<"GEOIP", ",">>)
        THEN << Join(<< <<"GEOIP">>, Split(special_rule)[2],
                        PolicyGet(tgt, policy_group, policy_group) >>) >>
        ELSE <<>>

IsSpecial(rule_def) == StartsWith(rule_def, <<"[">>)

\* lines 190-203: rule_def.startswith("[")
Special(t) ==
    /\ t \in 1..Len(tasks)
    /\ tasks[t].pc = "body"
    /\ IsSpecial(tasks[t].rule_def)
    /\ LET rules == SpecialRules(target, tasks[t].policy_group, tasks[t].rule_def)
       IN  /\ converted_rules' =
                 DictExtend(converted_rules, ListKey(target, tasks[t].policy_group), rules)
           /\ tasks' = [tasks EXCEPT ![t].pc = "done",
                                     ![t].appended = @ + Len(rules)]
    /\ UNCHANGED <<target, mode, max_workers, iniFile, cache, pc, rulesets,
                   completed, files>>

\* what a reader finds at a cache path
FileState(file) ==
    IF ~file.exists THEN "absent"
    ELSE IF file.readable THEN "readable" ELSE "unreadable"

\* mutant of CacheHit: the cached copy is never used
CacheHit_Never(use_cache, file) == FALSE

\* download_rule_file, line 108: the cache is used
CacheHit(use_cache, file) == use_cache /\ file.exists /\ file.readable

\* where process_ruleset goes with what download_rule_file returned
AfterDownload(content) == IF Truthy(content) THEN "convert" ELSE "done"

\* lines 205 and 106-114: process_ruleset calls download_rule_file(rule_def)
\* with use_cache left at its default True; the cache check and read
DownloadCheck(t) ==
    /\ t \in 1..Len(tasks)
    /\ tasks[t].pc = "body"
    /\ ~IsSpecial(tasks[t].rule_def)
    /\ LET file == cache[get_cache_path(tasks[t].rule_def)]
       IN  IF CacheHit(TRUE, file)
           THEN tasks' = [tasks EXCEPT ![t].seen = FileState(file),
                                       ![t].content = Some(file.content),
                                       ![t].pc = AfterDownload(Some(file.content))]
           ELSE tasks' = [tasks EXCEPT ![t].seen = FileState(file),
                                       ![t].pc = "fetch"]
    /\ UNCHANGED <<target, mode, max_workers, iniFile, cache, pc, rulesets,
                   converted_rules, completed, files>>

\* how one urlopen(...).read().decode() can end: a body, a URLError, or any
\* other exception (a timeout while reading, an undecodable body)
FetchOutcomes == {"ok", "urlerror", "exception"}

\* lines 127-139: what download_rule_file returns when the fetch failed
FailureResult(outcome, file) ==
    IF outcome = "urlerror" /\ file.exists /\ file.readable
    THEN Some(file.content)
    ELSE None

\* how "with open(cache_path, "w") as f: f.write(content)" can end: the
\* file holds content; open() raised and the file is as it was; or open()
\* truncated the file and write() raised
WriteOutcomes == {"written", "failed", "truncated"}

\* mutant of WriteCache: a write that fails removes the file
WriteCache_Unlink(file, content, how) ==
    IF how = "written" THEN FileWith(content) ELSE Absent

\* lines 120-125: the cache file after the write
WriteCache(file, content, how) ==
    IF how = "written" THEN FileWith(content)
    ELSE IF how = "truncated" THEN FileWith(<<>>)
    ELSE file

\* lines 116-139: the request, the cache write, the fallback
Fetch(t) ==
    /\ t \in 1..Len(tasks)
    /\ tasks[t].pc = "fetch"
    /\ LET path == get_cache_path(tasks[t].rule_def)
       IN  \E outcome \in FetchOutcomes :
             IF outcome = "ok"
             THEN \E saved \in WriteOutcomes :
                    /\ cache' = [cache EXCEPT
                           ![path] = WriteCache(@, Served(tasks[t].rule_def), saved)]
                    /\ tasks' = [tasks EXCEPT
                           ![t].requests = @ + 1,
                           ![t].fetch = outcome,
                           ![t].wrote = saved,
                           ![t].content = Some(Served(tasks[t].rule_def)),
                           ![t].pc = AfterDownload(Some(Served(tasks[t].rule_def)))]
             ELSE /\ cache' = cache
                  /\ tasks' = [tasks EXCEPT
                         ![t].requests = @ + 1,
                         ![t].fetch = outcome,
                         ![t].content = FailureResult(outcome, cache[path]),
                         ![t].pc = AfterDownload(FailureResult(outcome, cache[path]))]
    /\ UNCHANGED <<target, mode, max_workers, iniFile, pc, rulesets,
                   converted_rules, completed, files>>

\* lines 211-215: one turn of "for line in content.splitlines()"
ConvertLine(t) ==
    /\ t \in 1..Len(tasks)
    /\ tasks[t].pc = "convert"
    /\ LET i         == tasks[t].idx + 1
           converted == ConvertRule(target, tasks[t].content.val[i],
                                    tasks[t].policy_group, mode)
           last      == i = Len(tasks[t].content.val)
       IN  /\ converted_rules' =
                 IF converted.some
                 THEN DictAppend(converted_rules, ListKey(target, tasks[t].policy_group),
                                 converted.val)
                 ELSE converted_rules
           /\ tasks' = [tasks EXCEPT
                  ![t].idx = i,
                  ![t].appended = IF converted.some THEN @ + 1 ELSE @,
                  ![t].pc = IF last THEN "done" ELSE "convert"]
    /\ UNCHANGED <<target, mode, max_workers, iniFile, cache, pc, rulesets,
                   completed, files>>

----------------------------------------------------------------------------
(* generate_output_files and generate_full_config.                         *)

\* ".list" if self.mode == "list" else ".conf"
file_extension(m) == IF m = "list" THEN ".list" ELSE ".conf"

\* a rule file: its name, the number in its "# Total rules:" header line,
\* and its rule lines
RuleFile(name, rules, m) ==
    [name |-> Append(name, file_extension(m)), total |-> Len(rules), lines |-> rules]

\* the per-group files, in the order the loop writes them: a group whose
\* list is empty is skipped (lines 226-242)
RECURSIVE GroupFiles(_, _)
GroupFiles(d, m) ==
    IF d = <<>> THEN <<>>
    ELSE (IF d[1].val = <<>> THEN <<>> ELSE <<RuleFile(d[1].key, d[1].val, m)>>)
         \o GroupFiles(Tail(d), m)

\* mutant of AllRules: "all_rules = rules" in place of all_rules.extend(rules)
AllRules_Last(d) == IF d = <<>> THEN <<>> ELSE d[Len(d)].val

\* all_rules after the loop: all_rules.extend(rules) for each group written
RECURSIVE AllRules(_)
AllRules(d) == IF d = <<>> THEN <<>> ELSE d[1].val \o AllRules(Tail(d))

\* the combined file, written only "if all_rules" (lines 244-254)
AllFile(d, m) ==
    IF AllRules(d) = <<>> THEN None ELSE Some(RuleFile(<<"ALL">>, AllRules(d), m))

\* the sections "# group" + rules of the full config, groups without rules
\* left out (qx 292-297, sr 346-351)
RECURSIVE RuleSections(_)
RuleSections(d) ==
    IF d = <<>> THEN <<>>
    ELSE (IF d[1].val = <<>> THEN <<>> ELSE <<[name |-> d[1].key, lines |-> d[1].val]>>)
         \o RuleSections(Tail(d))

\* generate_full_config: the [policy] lines "static=<group>, ..." exist in
\* the Quantumult X config only (qx 278-284)
generate_full_config(tgt, d) ==
    [policy |-> IF tgt = "qx" THEN Keys(d) ELSE <<>>, sections |-> RuleSections(d)]

generate_output_files(tgt, d, m) ==
    [written |-> TRUE,
     groups  |-> GroupFiles(d, m),
     all     |-> AllFile(d, m),
     full    |-> IF m = "full" THEN Some(generate_full_config(tgt, d)) ELSE None]

\* the output directory before generate_output_files has run
NoFiles == [written |-> FALSE, groups |-> <<>>, all |-> None, full |-> None]

----------------------------------------------------------------------------
(* convert(): the main thread.                                             *)

\* line 314: self.parse_acl4ssr_ini()
Parse ==
    /\ pc = "parse"
    /\ rulesets' = rulesets \o parse_acl4ssr_ini(iniFile)
    /\ pc' = "submit"
    /\ UNCHANGED <<target, mode, max_workers, iniFile, cache, tasks,
                   converted_rules, completed, files>>

\* lines 318-321: one executor.submit per element of self.rulesets
Submit ==
    /\ pc = "submit"
    /\ tasks' = [i \in 1..Len(rulesets) |-> NewTask(rulesets[i][1], rulesets[i][2])]
    /\ pc' = "collect"
    /\ UNCHANGED <<target, mode, max_workers, iniFile, cache, rulesets,
                   converted_rules, completed, files>>

\* lines 324-331: as_completed yields a finished future; future.result()
\* returns, or raises and the except branch swallows the exception
Collect(t) ==
    /\ pc = "collect"
    /\ t \in 1..Len(tasks)
    /\ Finished(t)
    /\ ~tasks[t].collected
    /\ tasks' = [tasks EXCEPT ![t].collected = TRUE]
    /\ completed' = IF tasks[t].pc = "done" THEN completed + 1 ELSE completed
    /\ UNCHANGED <<target, mode, max_workers, iniFile, cache, pc, rulesets,
                   converted_rules, files>>

\* mutant of PoolDrained: the loop is left at the first future that raised
PoolDrained_FirstError ==
    \/ \A t \in 1..Len(tasks) : tasks[t].collected /\ Finished(t)
    \/ \E t \in 1..Len(tasks) : tasks[t].collected /\ tasks[t].pc = "raised"

\* the for loop over as_completed ends when every future has been yielded;
\* leaving the with block then joins the pool (shutdown(wait=True))
PoolDrained == \A t \in 1..Len(tasks) : tasks[t].collected /\ Finished(t)

\* lines 317-333: out of the with block
LeavePool ==
    /\ pc = "collect"
    /\ PoolDrained
    /\ pc' = "generate"
    /\ UNCHANGED <<target, mode, max_workers, iniFile, cache, rulesets, tasks,
                   converted_rules, completed, files>>

\* line 333: self.generate_output_files()
Generate ==
    /\ pc = "generate"
    /\ files' = generate_output_files(target, converted_rules, mode)
    /\ pc' = "done"
    /\ UNCHANGED <<target, mode, max_workers, iniFile, cache, rulesets, tasks,
                   converted_rules, completed>>

----------------------------------------------------------------------------
(* Spec: one run of convert() on a directive file of at most MaxRulesets   *)
(* directives, with every interleaving of the pool's threads.              *)

IniFiles == SeqsUpTo(DirectiveLines, MaxRulesets)

CacheStates == {Absent, Unreadable, FileWith(StaleCopy)}

\* the state __init__ leaves
Init ==
    /\ target \in {"qx", "sr"}
    /\ mode \in {"list", "full"}
    /\ max_workers \in 1..MaxWorkers
    /\ iniFile \in IniFiles
    /\ cache \in [URLs -> CacheStates]
    /\ pc = "parse"
    /\ rulesets = <<>>
    /\ tasks = <<>>
    /\ converted_rules = <<>>
    /\ completed = 0
    /\ files = NoFiles

Next ==
    \/ Parse
    \/ Submit
    \/ \E t \in 1..Len(tasks) : Start(t)
    \/ \E t \in 1..Len(tasks) : TaskRaises(t)
    \/ \E t \in 1..Len(tasks) : InitList(t)
    \/ \E t \in 1..Len(tasks) : Special(t)
    \/ \E t \in 1..Len(tasks) : DownloadCheck(t)
    \/ \E t \in 1..Len(tasks) : Fetch(t)
    \/ \E t \in 1..Len(tasks) : ConvertLine(t)
    \/ \E t \in 1..Len(tasks) : Collect(t)
    \/ LeavePool
    \/ Generate

Spec == Init /\ [][Next]_vars

----------------------------------------------------------------------------
(* SpecLine: the for loop of process_ruleset over a source of two lines,   *)
(* the first any line of at most MaxLineLen symbols, the second a rule.    *)
(* The call has read the source from the cache and is about to convert.    *)

LineSyms == {"DOMAIN", "IP-CIDR6", "MATCH", "USER-AGENT", "a", ",", " ", "#"}

RuleLines == SeqsUpTo(LineSyms, MaxLineLen)

LastLine == <<"DOMAIN-SUFFIX", ",", "z">>

InitLine ==
    \E line \in RuleLines, g \in {"GlobalDirect", "Custom"} :
        /\ target \in {"qx", "sr"}
        /\ mode \in {"list", "full"}
        /\ max_workers = 1
        /\ iniFile = << <<"ruleset=", g, ",", "u1">> >>
        /\ cache = [url \in URLs |-> FileWith(<<line, LastLine>>)]
        /\ pc = "collect"
        /\ rulesets = << << <<g>>, <<"u1">> >> >>
        /\ tasks = << [NewTask(<<g>>, <<"u1">>) EXCEPT
                          !.pc = "convert",
                          !.seen = "readable",
                          !.content = Some(<<line, LastLine>>)] >>
        /\ converted_rules = << [key |-> <<g>>, val |-> <<>>] >>
        /\ completed = 0
        /\ files = NoFiles

NextLine == \E t \in 1..Len(tasks) : ConvertLine(t)

SpecLine == InitLine /\ [][NextLine]_vars

----------------------------------------------------------------------------
(* SpecFlags: the for loop of process_ruleset over a source whose first    *)
(* line is an IP rule followed by at most MaxFlags further fields.         *)

FlagFields ==
    {<<"no-resolve">>, <<"NO-RESOLVE">>, <<" ", "no-resolve">>, <<"x">>, <<" ">>, <<>>}

IPLines ==
    {Join(<< <<ty>>, <<"a">> >> \o flags) :
        ty \in {"IP-CIDR", "IP-CIDR6"}, flags \in SeqsUpTo(FlagFields, MaxFlags)}

InitFlags ==
    \E line \in IPLines, g \in {"GlobalDirect", "Custom"} :
        /\ target \in {"qx", "sr"}
        /\ mode \in {"list", "full"}
        /\ max_workers = 1
        /\ iniFile = << <<"ruleset=", g, ",", "u1">> >>
        /\ cache = [url \in URLs |-> FileWith(<<line, LastLine>>)]
        /\ pc = "collect"
        /\ rulesets = << << <<g>>, <<"u1">> >> >>
        /\ tasks = << [NewTask(<<g>>, <<"u1">>) EXCEPT
                          !.pc = "convert",
                          !.seen = "readable",
                          !.content = Some(<<line, LastLine>>)] >>
        /\ converted_rules = << [key |-> <<g>>, val |-> <<>>] >>
        /\ completed = 0
        /\ files = NoFiles

NextFlags == \E t \in 1..Len(tasks) : ConvertLine(t)

SpecFlags == InitFlags /\ [][NextFlags]_vars

----------------------------------------------------------------------------
(* SpecParse: parse_acl4ssr_ini and the submission on a directive file     *)
(* that holds any line of at most MaxIniLineLen symbols, alone, before or  *)
(* after a directive.                                                      *)

IniSyms == {"ruleset=", "g", ",", " ", "#"}

IniLines == SeqsUpTo(IniSyms, MaxIniLineLen)

GeoDirective == <<"ruleset=", "Custom", ",", "[", "]", "GEOIP", ",", "CN">>

InitParse ==
    \E line \in IniLines :
        /\ target = "qx"
        /\ mode = "list"
        /\ max_workers = 1
        /\ iniFile \in {<<line>>, <<line, GeoDirective>>, <<GeoDirective, line>>}
        /\ cache = [url \in URLs |-> Absent]
        /\ pc = "parse"
        /\ rulesets = <<>>
        /\ tasks = <<>>
        /\ converted_rules = <<>>
        /\ completed = 0
        /\ files = NoFiles

NextParse == Parse \/ Submit

SpecParse == InitParse /\ [][NextParse]_vars

----------------------------------------------------------------------------
(* Helpers of the properties.                                              *)

TaskIds == 1..Len(tasks)

\* the policy-group names of the parsed directives
ParsedGroups == {rulesets[i][1] : i \in 1..Len(rulesets)}

\* no request failed, no cache write failed, no call raised
FaultFree ==
    \A t \in TaskIds :
        /\ tasks[t].pc # "raised"
        /\ tasks[t].fetch \in {"none", "ok"}
        /\ tasks[t].wrote \in {"no", "written"}

\* the translations of the lines of a source, in source order
RECURSIVE TranslateAll(_, _, _, _)
TranslateAll(tgt, lines, policy_group, m) ==
    IF lines = <<>> THEN <<>>
    ELSE LET r == ConvertRule(tgt, Head(lines), policy_group, m)
         IN  (IF r.some THEN <<r.val>> ELSE <<>>)
             \o TranslateAll(tgt, Tail(lines), policy_group, m)

\* In a fault-free run every call for a URL gets the same text: the cached
\* copy when the cache file was readable from the start (it is then never
\* rewritten), the served body otherwise (the file, once written, holds it).
TextOf(url) ==
    IF cache[url].exists /\ cache[url].readable THEN cache[url].content ELSE Served(url)

\* converted_rules when the calls run one after the other in the order of
\* self.rulesets, as they do with max_workers = 1
RECURSIVE OneByOne(_, _)
OneByOne(d, rs) ==
    IF rs = <<>> THEN d
    ELSE LET g   == rs[1][1]
             def == rs[1][2]
             d1  == IF HasKey(d, g) THEN d ELSE DictSet(d, g, <<>>)
             out == IF IsSpecial(def) THEN SpecialRules(target, g, def)
                    ELSE TranslateAll(target, TextOf(def), g, mode)
         IN  OneByOne(DictExtend(d1, g, out), Tail(rs))

RECURSIVE SumAppended(_, _)
SumAppended(g, n) ==
    IF n = 0 THEN 0
    ELSE (IF tasks[n].policy_group = g THEN tasks[n].appended ELSE 0) + SumAppended(g, n - 1)

\* the lines of a sequence of rule files, file after file
RECURSIVE Concat(_)
Concat(fs) == IF fs = <<>> THEN <<>> ELSE fs[1].lines \o Concat(Tail(fs))

RECURSIVE SumTotals(_)
SumTotals(fs) == IF fs = <<>> THEN 0 ELSE fs[1].total + SumTotals(Tail(fs))

HasRules(entry) == entry.val # <<>>

----------------------------------------------------------------------------
(* C1 *)
\* C1 (determinism of convert(), stated for the run the claim compares every
\* other run with): when convert() has finished a run without faults, the
\* output files are those of the run in which the calls execute one after
\* the other in the order of self.rulesets; the order of the groups and the
\* order of the rules in each group are those of that run.
C1_SameBytes ==
    (pc = "done" /\ FaultFree) =>
        /\ converted_rules = OneByOne(<<>>, rulesets)
        /\ files = generate_output_files(target, OneByOne(<<>>, rulesets), mode)

(* C2 *)
\* C2 (no rule is lost): once the pool has been left, the list of every
\* policy group holds as many rules as the calls for that group appended.
C2_NoRuleLost ==
    pc \in {"generate", "done"} =>
        \A i \in 1..Len(converted_rules) :
            Len(converted_rules[i].val) = SumAppended(converted_rules[i].key, Len(tasks))

(* C3 *)
\* C3 (fallback on any failure): in the step in which the fetch of a call
\* fails, for whatever reason, while a readable cache file exists for the
\* URL, the call returns the content of that file; it returns None only
\* when there is no readable cache file.
C3_FallbackOnFailure ==
    [][\A t \in TaskIds :
          (tasks[t].pc = "fetch" /\ tasks'[t].fetch \in {"urlerror", "exception"}) =>
              LET file == cache[get_cache_path(tasks[t].rule_def)]
              IN  IF file.exists /\ file.readable
                  THEN tasks'[t].content = Some(file.content)
                  ELSE tasks'[t].content = None]_vars

(* C4 *)
\* the requests a call has issued, by what its cache check found
C4_CallState ==
    \A t \in TaskIds :
        /\ tasks[t].requests <= 1
        /\ tasks[t].seen = "readable" => tasks[t].requests = 0 /\ tasks[t].pc # "fetch"
        /\ tasks[t].pc = "fetch" => tasks[t].requests = 0
        /\ (tasks[t].seen \in {"absent", "unreadable"} /\ tasks[t].pc # "fetch")
              => tasks[t].requests = 1

\* the step that leaves the cache check of download_rule_file
C4_CallStep ==
    \A t \in TaskIds :
        (tasks[t].pc = "body" /\ ~IsSpecial(tasks[t].rule_def) /\ tasks'[t].pc # "body") =>
            LET file == cache[get_cache_path(tasks[t].rule_def)]
            IN  IF file.exists /\ file.readable
                THEN /\ tasks'[t].content = Some(file.content)
                     /\ tasks'[t].requests = 0
                     /\ tasks'[t].pc # "fetch"
                ELSE tasks'[t].pc = "fetch"

\* C4 (requests per download_rule_file call): a call that finds a readable
\* cache file (use_cache is true in every call the program makes) issues no
\* request and returns exactly the content of that file; every other call
\* goes on to issue exactly one request, and no call ever issues a second.
C4_OneRequestAtMost == [](C4_CallState) /\ [][C4_CallStep]_vars

\* a call found no cache file, issued its one request and cached the body;
\* another call then returned the cached copy without a request
C4_Witness ==
    \E t, u \in TaskIds :
        /\ tasks[t].seen = "absent" /\ tasks[t].wrote = "written" /\ tasks[t].requests = 1
        /\ tasks[u].seen = "readable" /\ tasks[u].pc = "done" /\ tasks[u].requests = 0
        /\ tasks[u].appended > 0

(* C5 *)
\* C5 as claimed (write-once): a cache file that exists is never changed.
C5_WriteOnce ==
    [][\A url \in URLs : cache[url].exists => cache'[url] = cache[url]]_vars

\* a step that changes a cache file
C5_WriteStep ==
    \A url \in URLs :
        /\ cache[url].exists => cache'[url].exists
        /\ cache'[url] # cache[url] =>
              \E t \in TaskIds :
                  /\ get_cache_path(tasks[t].rule_def) = url
                  /\ tasks[t].pc = "fetch" /\ tasks'[t].fetch = "ok"
                  /\ tasks[t].wrote = "no" /\ tasks'[t].wrote \in {"written", "truncated"}
                  /\ tasks[t].seen \in {"absent", "unreadable"}
                  /\ cache'[url] \in {FileWith(Served(url)), FileWith(<<>>)}

\* C5 as amended: a cache file is never removed; it changes only in the
\* step of a call for its URL whose fetch succeeded and whose own cache
\* check had not found a readable file, and it then holds the fetched body
\* or, when the write broke off, nothing; every call writes at most once.
C5_WriteOnMissOnly ==
    /\ [](\A t \in TaskIds : tasks[t].wrote # "no" =>
              tasks[t].fetch = "ok" /\ tasks[t].seen # "readable")
    /\ [][C5_WriteStep]_vars

\* two calls for the same URL both wrote its cache file
C5_Witness ==
    \E t, u \in TaskIds :
        /\ t # u
        /\ tasks[t].rule_def = tasks[u].rule_def
        /\ tasks[t].wrote = "written" /\ tasks[u].wrote = "written"

(* C6 *)
\* C6 (fan-in): one call is submitted per parsed pair, in order;
\* generate_output_files runs only when every call has returned or raised,
\* and has run when convert() is done; while the pool still holds calls,
\* one of them is running or can start, or a finished one waits to be
\* collected, so a call that raised keeps neither the other calls nor the
\* output from happening.
C6_FanIn ==
    /\ pc \in {"collect", "generate", "done"} =>
          /\ Len(tasks) = Len(rulesets)
          /\ \A i \in TaskIds :
                tasks[i].policy_group = rulesets[i][1] /\ tasks[i].rule_def = rulesets[i][2]
    /\ (pc \in {"generate", "done"} \/ files.written) => \A t \in TaskIds : Finished(t)
    /\ files.written <=> pc = "done"
    /\ (pc = "collect" /\ ~PoolDrained) =>
          \E t \in TaskIds :
              CanStart(t) \/ Running(t) \/ (Finished(t) /\ ~tasks[t].collected)

\* the first call raised, a later one ran and appended, and the files are
\* written
C6_Witness ==
    /\ files.written
    /\ \E t, u \in TaskIds :
          t < u /\ tasks[t].pc = "raised" /\ tasks[u].pc = "done" /\ tasks[u].appended > 0

(* C7 *)
\* C7 (ALL is the concatenation): after generate_output_files the per-group
\* files are those of the groups that have rules, in the order of
\* converted_rules, each with its rules in order; ALL holds the lines of
\* these files, file after file; its total is the sum of their totals; a
\* group without rules has no file; ALL is written iff there is a rule.
C7_AllIsConcatenation ==
    files.written =>
        LET withRules == SelectSeq(converted_rules, HasRules)
        IN  /\ Len(files.groups) = Len(withRules)
            /\ \A i \in 1..Len(withRules) :
                  /\ files.groups[i].name = Append(withRules[i].key, file_extension(mode))
                  /\ files.groups[i].lines = withRules[i].val
                  /\ files.groups[i].total = Len(withRules[i].val)
                  /\ files.groups[i].total > 0
            /\ files.all.some <=> (\E i \in 1..Len(converted_rules) : HasRules(converted_rules[i]))
            /\ files.all.some =>
                  /\ files.all.val.lines = Concat(files.groups)
                  /\ files.all.val.total = SumTotals(files.groups)
                  /\ files.all.val.total = Len(files.all.val.lines)

\* two group files with different numbers of rules were written
C7_Witness ==
    /\ files.written
    /\ Len(files.groups) = 2
    /\ files.groups[1].total # files.groups[2].total
    /\ files.all.some

(* C8 *)
Range(f) == {f[x] : x \in DOMAIN f}

\* the rules a directive (g, def) can yield: its inline rule, or the
\* translations of the lines of its source, served or cached
YieldsOf(tgt, m, g, def) ==
    IF IsSpecial(def) THEN Range(SpecialRules(tgt, g, def))
    ELSE Range(TranslateAll(tgt, Served(def), g, m))
         \cup Range(TranslateAll(tgt, StaleCopy, g, m))

\* the directives of the directive files of Spec, and what each can yield
\* (a table, so that it is computed once)
KnownPairs == UNION {Range(ParseLine(line)) : line \in DirectiveLines}

YieldsTable ==
    [tgt \in {"qx", "sr"} |-> [m \in {"list", "full"} |->
        [p \in KnownPairs |-> YieldsOf(tgt, m, p[1], p[2])]]]

Yields(g, def) == YieldsTable[target][mode][<<g, def>>]

\* the keys are parsed groups and the rules under a key are yields of its
\* directives
C8_KeyedState ==
    \A i \in 1..Len(converted_rules) :
        LET g == converted_rules[i].key
        IN  /\ g \in ParsedGroups
            /\ converted_rules[i].val # <<>> =>
                  Range(converted_rules[i].val) \subseteq
                      UNION {Yields(g, rulesets[j][2]) :
                                j \in {n \in 1..Len(rulesets) : rulesets[n][1] = g}}

\* a step that adds a key or changes a list is a step of a call of that group
C8_KeyedStep ==
    \A i \in 1..Len(converted_rules') :
        (i > Len(converted_rules) \/ converted_rules'[i] # converted_rules[i]) =>
            \E t \in TaskIds :
                tasks'[t] # tasks[t] /\ tasks[t].policy_group = converted_rules'[i].key

\* C8 (aggregation keyed by policy group): every key of converted_rules is
\* the policy group of a parsed directive and every rule under it is what a
\* directive of that group yields (its inline rule, or the translation of a
\* line of its source); a step changes the list of a group, or adds the
\* group, only when it is a step of a call for that group.
C8_KeyedByGroup == [](C8_KeyedState) /\ [][C8_KeyedStep]_vars

\* both groups hold rules, one of them rules of a fetched source
C8_Witness ==
    /\ Len(converted_rules) = 2
    /\ \A i \in 1..2 : HasRules(converted_rules[i])
    /\ \E t \in TaskIds : tasks[t].idx > 0 /\ tasks[t].appended > 0

(* C9 *)
\* the first line of the source of call t, and what the loop has made of it
FirstLine(t) == tasks[t].content.val[1]

IsTypeKey(tgt, field) == Len(field) = 1 /\ field[1] \in DOMAIN RULE_TYPE_MAP(tgt)

\* the fields of a line as the claim counts them: the trimmed line is not
\* blank and no comment, is cut at its commas into at least two fields, and
\* its first field is a key of the table
FieldsAsClaimed(tgt, raw) == Split(Strip(raw))

\* the fields as each converter counts them: Shadowrocket as above,
\* Quantumult X after it has dropped the blank fields
FieldsAsCoded(tgt, raw) ==
    IF tgt = "qx" THEN SelectSeq(MapStrip(Split(Strip(raw))), NonEmpty)
    ELSE Split(Strip(raw))

Translatable(tgt, raw, fields) ==
    /\ Strip(raw) # <<>>
    /\ Head(Strip(raw)) # "#"
    /\ Len(fields) >= 2
    /\ IsTypeKey(tgt, Strip(fields[1]))

\* what the loop must have done with a source of two lines whose first line
\* has the given fields: a line is translated iff it is translatable, its
\* output starts with the table's image of its type, a skipped line leaves
\* converted_rules alone, and the line after it is translated all the same
LineHandled(t, fields) ==
    LET ok    == Translatable(target, FirstLine(t), fields)
        rules == DictGet(converted_rules, tasks[t].policy_group)
        n     == IF ok THEN 1 ELSE 0
    IN  /\ tasks[t].idx = 0 => rules = <<>>
        /\ tasks[t].idx >= 1 =>
              /\ Len(rules) >= n
              /\ ok => Split(rules[1])[1] =
                          <<RULE_TYPE_MAP(target)[Strip(fields[1])[1]]>>
        /\ tasks[t].idx = 1 => Len(rules) = n /\ tasks[t].pc = "convert"
        /\ tasks[t].idx = 2 =>
              /\ Len(rules) = n + 1
              /\ rules[n + 1] = ConvertRule(target, LastLine, tasks[t].policy_group, mode).val
              /\ tasks[t].pc = "done"

\* C9 as claimed: a line is translated iff it is not blank, not a comment,
\* has at least two comma-separated fields and its first field is a key of
\* the rewrite table; the output then starts with the table's image; every
\* other line is skipped and the next line is still translated.
C9_TableDriven ==
    \A t \in TaskIds :
        tasks[t].content.some => LineHandled(t, FieldsAsClaimed(target, FirstLine(t)))

\* C9 as amended: the same, the fields being counted as each converter
\* counts them: for Quantumult X only the non-blank fields count (blank
\* fields are dropped before the count and before the first field is
\* taken), for Shadowrocket every field counts.
C9_TableDrivenAsCoded ==
    \A t \in TaskIds :
        tasks[t].content.some => LineHandled(t, FieldsAsCoded(target, FirstLine(t)))

\* a MATCH line came out as a FINAL rule and the line after it was
\* translated too
C9_Witness ==
    \E t \in TaskIds :
        /\ tasks[t].idx = 2
        /\ FirstLine(t) = <<"MATCH", ",", "a">>
        /\ Len(DictGet(converted_rules, tasks[t].policy_group)) = 2
        /\ Head(DictGet(converted_rules, tasks[t].policy_group)[1]) = "FINAL"

(* C10 *)
\* the comma of a trimmed directive line that ends its group: the line
\* starts with "ruleset=", the comma is its first, something stands before
\* it and something after it; 0 when the line is no such directive
GroupComma(line) ==
    IF /\ line # <<>>
       /\ Head(line) = "ruleset="
       /\ \E c \in 3..(Len(line) - 1) :
             line[c] = "," /\ \A j \in 2..(c - 1) : line[j] # ","
    THEN CHOOSE c \in 3..(Len(line) - 1) :
             line[c] = "," /\ \A j \in 2..(c - 1) : line[j] # ","
    ELSE 0

\* the pairs the claim expects of a directive file, in file order
RECURSIVE ExpectedPairs(_)
ExpectedPairs(lines) ==
    IF lines = <<>> THEN <<>>
    ELSE LET line == Strip(Head(lines))
             c    == GroupComma(line)
         IN  (IF c = 0 THEN <<>>
              ELSE << << Strip(SubSeq(line, 2, c - 1)),
                         Strip(SubSeq(line, c + 1, Len(line))) >> >>)
             \o ExpectedPairs(Tail(lines))

\* C10 (directive parsing): after parse_acl4ssr_ini, rulesets holds, in file
\* order, one (group, source) pair for each line that, trimmed, starts with
\* "ruleset=" and has something before its first comma and something after
\* it, the source being all that follows the first comma; every other line
\* contributes nothing.
C10_ParsedPairs ==
    /\ pc = "parse" => rulesets = <<>>
    /\ pc # "parse" => rulesets = ExpectedPairs(iniFile)

\* a directive whose source contains a comma was parsed after another one
C10_Witness ==
    /\ pc # "parse"
    /\ Len(rulesets) = 2
    /\ rulesets[1] = << <<"g">>, <<"g", ",", "g">> >>
    /\ rulesets[2] = << <<"Custom">>, <<"[", "]", "GEOIP", ",", "CN">> >>

(* C11 *)
\* the policy a stored rule names: the second field of a FINAL rule, the
\* third field of any other rule
PolicyField(rule) ==
    LET fields == Split(rule)
    IN  IF fields[1] = <<"FINAL">> THEN fields[2] ELSE fields[3]

BasePolicies(tgt) ==
    {<<"DIRECT">>, <<"REJECT">>, IF tgt = "qx" THEN <<"proxy">> ELSE <<"PROXY">>}

\* C11 (list mode names no policy group): in list mode the policy of every
\* rule stored in converted_rules, translated or from an inline special
\* directive, is DIRECT, REJECT or proxy (PROXY for Shadowrocket), also
\* under a group that is not a key of POLICY_MAP.
C11_BasePoliciesOnly ==
    mode = "list" =>
        \A i \in 1..Len(converted_rules) :
            \A j \in 1..Len(converted_rules[i].val) :
                PolicyField(converted_rules[i].val[j]) \in BasePolicies(target)

(* C12 *)
\* C12 (full mode keeps the group name): in full mode the policy of every
\* rule stored under group G in converted_rules, translated or from an
\* inline special directive, is the name G, never its POLICY_MAP image.
C12_GroupNameKept ==
    mode = "full" =>
        \A i \in 1..Len(converted_rules) :
            \A j \in 1..Len(converted_rules[i].val) :
                PolicyField(converted_rules[i].val[j]) = converted_rules[i].key

(* C13 *)
IsIPRule(rule) == Split(rule)[1] \in {<<"IP-CIDR">>, <<"IP-CIDR6">>}

\* how many of the fields are the no-resolve flag, in any letter case
NoResolveCount(fields) ==
    Cardinality({i \in 1..Len(fields) : Lower(fields[i]) = <<"no-resolve">>})

\* an IP rule stored under group g has the form type,value,policy,flags:
\* the value of the source line (every line of IPLines has the value a), the
\* policy of g as third field, and at least one flag
IPRuleForm(g, rule) ==
    LET out == Split(rule)
    IN  /\ Len(out) >= 4
        /\ out[2] = <<"a">>
        /\ IF mode = "list" THEN out[3] \in BasePolicies(target) ELSE out[3] = g

\* the flags of a rule
FlagsOf(rule) == SubSeq(Split(rule), 4, Len(Split(rule)))

\* the no-resolve flags the first source line of call t carries after its
\* value
CarriedNoResolve(t) ==
    LET fields == SelectSeq(MapStrip(Split(Strip(FirstLine(t)))), NonEmpty)
    IN  NoResolveCount(SubSeq(fields, 3, Len(fields)))

\* C13 as claimed (no-resolve on IP rules): every output line translated
\* from an IP-CIDR line (IP-CIDR6 too for Quantumult X) is
\* type,value,policy followed by flags among which no-resolve occurs
\* exactly once, whatever flags the source line carried; the policy is the
\* third field.
C13_NoResolveOnce ==
    \A i \in 1..Len(converted_rules) :
        \A j \in 1..Len(converted_rules[i].val) :
            LET rule == converted_rules[i].val[j]
            IN  IsIPRule(rule) =>
                    /\ IPRuleForm(converted_rules[i].key, rule)
                    /\ NoResolveCount(FlagsOf(rule)) = 1

\* C13 as amended: the same form and the policy third, with no-resolve
\* among the flags as often as the source line carried it and once when it
\* carried none for Quantumult X, which keeps the flags of the source;
\* exactly once, as the only flag, for Shadowrocket, which drops them.
C13_NoResolvePresent ==
    \A t \in TaskIds :
        (tasks[t].content.some /\ tasks[t].idx >= 1) =>
            LET rules == DictGet(converted_rules, tasks[t].policy_group)
                n     == CarriedNoResolve(t)
            IN  (rules # <<>> /\ IsIPRule(rules[1])) =>
                    /\ IPRuleForm(tasks[t].policy_group, rules[1])
                    /\ IF target = "qx"
                       THEN NoResolveCount(FlagsOf(rules[1])) = (IF n = 0 THEN 1 ELSE n)
                       ELSE FlagsOf(rules[1]) = << <<"no-resolve">> >>

\* Quantumult X translated an IP rule that carried the flag in upper case
\* and kept it as its only flag
C13_Witness ==
    \E t \in TaskIds :
        /\ target = "qx"
        /\ tasks[t].idx >= 1
        /\ FirstLine(t) = <<"IP-CIDR", ",", "a", ",", "NO-RESOLVE">>
        /\ FlagsOf(DictGet(converted_rules, tasks[t].policy_group)[1])
              = << <<"NO-RESOLVE">> >>

(* C14 *)
\* the rules call t has produced so far, in the order of its source: the
\* translations of the lines its loop has passed, or the rule of its
\* inline directive once it has run
Produced(t) ==
    IF IsSpecial(tasks[t].rule_def)
    THEN IF tasks[t].pc = "done"
         THEN SpecialRules(target, tasks[t].policy_group, tasks[t].rule_def)
         ELSE <<>>
    ELSE IF tasks[t].content.some
         THEN TranslateAll(target, SubSeq(tasks[t].content.val, 1, tasks[t].idx),
                           tasks[t].policy_group, mode)
         ELSE <<>>

Front(s) == SubSeq(s, 1, Len(s) - 1)

\* list is an interleaving of the latest rules of the calls: it can be taken
\* apart from its end, each rule being the last not yet taken of one call,
\* so that the rules of one call stand in the order the call produced them
RECURSIVE InSourceOrder(_, _)
InSourceOrder(list, produced) ==
    \/ list = <<>>
    \/ \E t \in DOMAIN produced :
          /\ produced[t] # <<>>
          /\ produced[t][Len(produced[t])] = list[Len(list)]
          /\ InSourceOrder(Front(list), [produced EXCEPT ![t] = Front(@)])

\* C14 (source order per rule-set): in every reachable state, under every
\* interleaving of the workers, the rules a rule-set has contributed to
\* converted_rules[G] stand in the order of their source lines; rules of
\* different rule-sets of G may interleave.
C14_SourceOrderKept ==
    \A i \in 1..Len(converted_rules) :
        InSourceOrder(converted_rules[i].val,
                      [t \in {u \in TaskIds : tasks[u].policy_group = converted_rules[i].key}
                          |-> Produced(t)])

\* the rule of an inline directive stands between the two rules of a source
\* of the same group
C14_Witness ==
    \E t \in TaskIds, u \in TaskIds :
        /\ ~IsSpecial(tasks[t].rule_def) /\ tasks[t].pc = "done" /\ tasks[t].appended = 2
        /\ IsSpecial(tasks[u].rule_def) /\ tasks[u].pc = "done"
        /\ tasks[u].policy_group = tasks[t].policy_group
        /\ DictGet(converted_rules, tasks[t].policy_group)
              = << Produced(t)[1], Produced(u)[1], Produced(t)[2] >>

====
